---- MODULE Spec2Model ----
(***************************************************************************)
(* State-machine model of the fraud-detection backend's agent scheduler    *)
(* (AgentManager in server/services/agents.ts), its handlers, the wallet-   *)
(* profile aggregation, transaction ingestion and the bootstrap of the     *)
(* Agent collection.                                                       *)
(*                                                                         *)
(* The event loop is single threaded: the code between two awaits is one   *)
(* atomic step.  Every awaited store operation is one action in which the  *)
(* operation takes effect and the continuation runs up to the next await;  *)
(* an awaited store operation may also reject, which is a separate action. *)
(***************************************************************************)
EXTENDS Integers, Sequences, FiniteSets, TLC

\* ------------------------------------------------------------------------
\* Bounds of the model
\* ------------------------------------------------------------------------
\* timer handles that can be live for one agent at a time
MaxTimers == 2
\* closures of one agent that can be in flight at a time
MaxExec == 2

\* ------------------------------------------------------------------------
\* The Agent collection (bootstrap: one agent per type, part_001:27-69)
\* ------------------------------------------------------------------------
BootAgents == {"risk_scoring"}

intervalSeconds(a) ==
  CASE a = "transaction_monitor" -> 5
    [] a = "behavior_analysis"   -> 10
    [] a = "risk_scoring"        -> 8
    [] a = "alerting"            -> 6
    [] a = "reporting"           -> 30

AgentStatus == {"active", "inactive", "processing", "error"}

\* a ladder whose last two rungs are exchanged
progressUpdatesSwapped == <<10, 25, 40, 55, 70, 85, 100, 95>>

\* const progressUpdates = [10, 25, 40, 55, 70, 85, 95, 100];
progressUpdates == <<10, 25, 40, 55, 70, 85, 95, 100>>

\* if (progress === 50) await this.executeAgentLogic(agent)
DispatchProgress == 50

\* ------------------------------------------------------------------------
\* State
\* ------------------------------------------------------------------------
VARIABLES
  running,     \* AgentManager.running
  intervals,   \* AgentManager.intervals: agent -> timer handle (NoTimer: no entry)
  timers,      \* the platform's timers: agent -> handle -> delay in ms (NotArmed: not pending)
  execs,       \* in-flight runs of the closure executeAgent of scheduleAgent
  agentStore,  \* the Agent collection: agent -> record
  paused,      \* history: the last status update of the agent set it inactive
  txs,         \* the Transaction collection: hash -> record (NoTx: absent)
  profiles,    \* the WalletProfile collection: address -> record (NoProfile: absent)
  scoring,     \* the run of executeRiskScoring in progress
  folded       \* history: address -> the scores updateWalletProfile was given, in order

walletVars == <<txs, profiles, scoring, folded>>

\* the agents of the Agent collection
Agents == DOMAIN agentStore

NoTimer == 0
NotArmed == -1
TimerIds == 1..MaxTimers
ExecIds == 1..MaxExec

\* A run of the closure: pc is the point it is suspended at, i the index of
\* the next rung of the ladder.  Two fields are history of the run: log (the
\* writes it applied to the store, in order) and dispatched (its calls of
\* executeAgentLogic).
IdleExec == [pc |-> "idle", i |-> 0, log |-> <<>>, dispatched |-> 0]

InFlight(x) == x.pc # "idle"

Armed(a) == {t \in TimerIds : timers[a][t] # NotArmed}

\* (agent.intervalSeconds || 30) * 1000
IntervalMs(a) == (IF intervalSeconds(a) = 0 THEN 30 ELSE intervalSeconds(a)) * 1000

\* (agent.intervalSeconds || 30) * 2000   // Double interval on error
ErrorBackoffMs(a) == (IF intervalSeconds(a) = 0 THEN 30 ELSE intervalSeconds(a)) * 2000

\* ------------------------------------------------------------------------
\* setTimeout / clearTimeout
\* ------------------------------------------------------------------------
\* clearTimeout(h): cancels h when it is pending, does nothing otherwise
clearTimeout(tm, h) == [t \in TimerIds |-> IF t = h THEN NotArmed ELSE tm[t]]

\* the handle setTimeout returns: one that names no pending timer
CanArm(tm) == \E t \in TimerIds : tm[t] = NotArmed
FreshHandle(tm) == CHOOSE t \in TimerIds : tm[t] = NotArmed /\ \A u \in TimerIds : tm[u] = NotArmed => t <= u
setTimeout(tm, delay) == [t \in TimerIds |-> IF t = FreshHandle(tm) THEN delay ELSE tm[t]]

\* ------------------------------------------------------------------------
\* scheduleAgent (agents.ts:37-85), the part outside the closure
\* ------------------------------------------------------------------------
\* if (this.intervals.has(agentId)) clearTimeout(this.intervals.get(agentId)!)
ClearedTimers(a) ==
  IF intervals[a] # NoTimer THEN clearTimeout(timers[a], intervals[a]) ELSE timers[a]

\* delay = agent.nextRun && agent.nextRun > now ? nextRun - now : 0
\* The clock is not part of the state.  nextRun is "past" (a time known to lie
\* before now) or "set" (the time now + interval that a cycle wrote; whether it
\* still lies after now depends on the time elapsed since, so both outcomes are
\* possible; IntervalMs stands for the values 1..IntervalMs of nextRun - now).
ScheduleDelays(rec, a) == IF rec.nextRun = "set" THEN {0, IntervalMs(a)} ELSE {0}

CanSchedule(a) == CanArm(ClearedTimers(a))
\* const timeout = setTimeout(executeAgent, delay); this.intervals.set(agentId, timeout)
scheduleAgentTimers(a, delay) == setTimeout(ClearedTimers(a), delay)
scheduleAgentHandle(a) == FreshHandle(ClearedTimers(a))

\* ------------------------------------------------------------------------
\* start / stop (agents.ts:9-35)
\* ------------------------------------------------------------------------
\* Agent.find({ status: 'active' })
ActiveAgents == {a \in Agents : agentStore[a].status = "active"}

start ==
  /\ ~running
  /\ running' = TRUE
  /\ \A a \in ActiveAgents : CanSchedule(a)
  /\ \E d \in [Agents -> {0} \cup {IntervalMs(a) : a \in Agents}] :
       /\ \A a \in Agents :
            d[a] \in (IF a \in ActiveAgents THEN ScheduleDelays(agentStore[a], a) ELSE {0})
       /\ timers' = [a \in Agents |->
            IF a \in ActiveAgents THEN scheduleAgentTimers(a, d[a]) ELSE timers[a]]
  /\ intervals' = [a \in Agents |->
       IF a \in ActiveAgents THEN scheduleAgentHandle(a) ELSE intervals[a]]
  /\ UNCHANGED <<execs, agentStore, paused>>

stop ==
  /\ running' = FALSE
  /\ timers' = [a \in Agents |-> ClearedTimers(a)]
  /\ intervals' = [a \in Agents |-> NoTimer]
  /\ UNCHANGED <<execs, agentStore, paused>>

\* ------------------------------------------------------------------------
\* The closure executeAgent of scheduleAgent (agents.ts:45-75) and
\* executeAgent (agents.ts:87-146)
\* ------------------------------------------------------------------------
\* a field an update does not set
NoField == "none"
Write(st, pr) == [status |-> st, progress |-> pr]

\* the slot a new run of the closure takes
FreeExec(a) == {e \in ExecIds : ~InFlight(execs[a][e])}
NewExec(a) == CHOOSE e \in FreeExec(a) : \A u \in FreeExec(a) : e <= u

\* A pending timer of the agent fires: the closure starts and issues the first
\* write of executeAgent.  The entry of this.intervals is left in place.
TimerFires(a, t) ==
  /\ timers[a][t] # NotArmed
  /\ FreeExec(a) # {}
  /\ timers' = [timers EXCEPT ![a] = clearTimeout(timers[a], t)]
  /\ execs' = [execs EXCEPT ![a][NewExec(a)] = [IdleExec EXCEPT !.pc = "start"]]
  /\ UNCHANGED <<running, intervals, agentStore, paused>>

\* Agent.findByIdAndUpdate(agentId, {status:'processing', progress:0, lastRun, nextRun})
WriteProcessing(a, e) ==
  /\ execs[a][e].pc = "start"
  /\ agentStore' = [agentStore EXCEPT ![a] =
       [status |-> "processing", progress |-> 0, nextRun |-> "set"]]
  /\ execs' = [execs EXCEPT ![a][e] =
       [@ EXCEPT !.pc = "ladder", !.i = 1,
                 !.log = Append(@, Write("processing", 0))]]
  /\ UNCHANGED <<running, intervals, timers, paused>>

\* One turn of the loop over progressUpdates: the step delay, the progress
\* write, and the dispatch test.  executeAgentLogic may throw.
LadderStep(a, e) ==
  LET x == execs[a][e]
      progress == progressUpdates[x.i]
      invoked == progress = DispatchProgress
  IN /\ x.pc = "ladder"
     /\ agentStore' = [agentStore EXCEPT ![a].progress = progress]
     /\ \E threw \in (IF invoked THEN BOOLEAN ELSE {FALSE}) :
          execs' = [execs EXCEPT ![a][e] =
            [x EXCEPT !.log = Append(@, Write(NoField, progress)),
                      !.dispatched = IF invoked THEN @ + 1 ELSE @,
                      !.pc = IF threw THEN "catch"
                             ELSE IF x.i < Len(progressUpdates) THEN "ladder"
                             ELSE "finish",
                      !.i = IF ~threw /\ x.i < Len(progressUpdates) THEN @ + 1 ELSE @]]
     /\ UNCHANGED <<running, intervals, timers, paused>>

\* Agent.findByIdAndUpdate(agentId, {status:'active', progress:0})
FinishCycle(a, e) ==
  /\ execs[a][e].pc = "finish"
  /\ agentStore' = [agentStore EXCEPT ![a].status = "active", ![a].progress = 0]
  /\ execs' = [execs EXCEPT ![a][e] =
       [@ EXCEPT !.pc = "next", !.log = Append(@, Write("active", 0))]]
  /\ UNCHANGED <<running, intervals, timers, paused>>

\* An awaited write of executeAgent rejects: control passes to the catch block
StoreWriteFails(a, e) ==
  /\ execs[a][e].pc \in {"start", "ladder", "finish"}
  /\ execs' = [execs EXCEPT ![a][e].pc = "catch"]
  /\ UNCHANGED <<running, intervals, timers, agentStore, paused>>

\* catch: Agent.findByIdAndUpdate(agentId, {status:'error', progress:0})
CatchWrite(a, e) ==
  /\ execs[a][e].pc = "catch"
  /\ agentStore' = [agentStore EXCEPT ![a].status = "error", ![a].progress = 0]
  /\ execs' = [execs EXCEPT ![a][e] =
       [@ EXCEPT !.pc = "retry", !.log = Append(@, Write("error", 0))]]
  /\ UNCHANGED <<running, intervals, timers, paused>>

\* The write of the catch block rejects: the closure's promise rejects and
\* the lines after the await are not run.  The closure was called by
\* setTimeout, so nothing handles the rejection: depending on the platform's
\* treatment of unhandled rejections the process goes on (a warning) or exits.
\* An exit takes every timer and every run in flight of every agent with it;
\* the Agent records stay as they are, and a later process finds the manager
\* as constructed.
ErrorWriteFails(a, e) ==
  /\ execs[a][e].pc = "catch"
  /\ \E exits \in BOOLEAN :
       IF exits
       THEN /\ running' = FALSE
            /\ intervals' = [b \in Agents |-> NoTimer]
            /\ timers' = [b \in Agents |-> [t \in TimerIds |-> NotArmed]]
            /\ execs' = [b \in Agents |-> [u \in ExecIds |-> IdleExec]]
       ELSE /\ execs' = [execs EXCEPT ![a][e] = IdleExec]
            /\ UNCHANGED <<running, intervals, timers>>
  /\ UNCHANGED <<agentStore, paused>>

\* The closure runs on after its last write and returns:
\*   if (this.running) { timeout = setTimeout(executeAgent, delay); intervals.set(agentId, timeout) }
\* with delay (intervalSeconds || 30) * 1000 after executeAgent returned and
\* (intervalSeconds || 30) * 2000 in the catch block
RearmDelay(a, pc) == IF pc = "next" THEN IntervalMs(a) ELSE ErrorBackoffMs(a)

ClosureReturns(a, e) ==
  /\ execs[a][e].pc \in {"next", "retry"}
  /\ running => CanArm(timers[a])
  /\ timers' = [timers EXCEPT ![a] =
       IF running THEN setTimeout(@, RearmDelay(a, execs[a][e].pc)) ELSE @]
  /\ intervals' = [intervals EXCEPT ![a] =
       IF running THEN FreshHandle(timers[a]) ELSE @]
  /\ execs' = [execs EXCEPT ![a][e] = IdleExec]
  /\ UNCHANGED <<running, agentStore, paused>>

\* ------------------------------------------------------------------------
\* updateAgentStatus (agents.ts:386-407), called by PATCH /api/agents/:id
\* with a body accepted by updateAgentSchema (README.md:350-354)
\* ------------------------------------------------------------------------
\* status: z.enum(['active','inactive','processing','error']).optional(); the
\* requests drawn here pause or resume the agent or leave its status alone
UpdateStatuses == {"active", "inactive", NoField}
\* progress: z.number().min(0).max(100).optional(); -1: the field is absent
UpdateProgresses == {-1, 10}

Updated(rec, st, pr) ==
  [rec EXCEPT !.status = IF st = NoField THEN @ ELSE st,
              !.progress = IF pr = -1 THEN @ ELSE pr]

updateAgentStatus(a, st, pr) ==
  LET agent == Updated(agentStore[a], st, pr)
      schedule == st = "active" /\ intervals[a] = NoTimer
      cancel == st = "inactive" /\ intervals[a] # NoTimer
  IN /\ agentStore' = [agentStore EXCEPT ![a] = agent]
     /\ schedule => CanSchedule(a)
     /\ \E delay \in ScheduleDelays(agent, a) :
          timers' = [timers EXCEPT ![a] =
            IF schedule THEN scheduleAgentTimers(a, delay)
            ELSE IF cancel THEN ClearedTimers(a)
            ELSE @]
     /\ intervals' = [intervals EXCEPT ![a] =
          IF schedule THEN scheduleAgentHandle(a)
          ELSE IF cancel THEN NoTimer
          ELSE @]
     /\ paused' = [paused EXCEPT ![a] =
          IF st = "inactive" THEN TRUE ELSE IF st = "active" THEN FALSE ELSE @]
     /\ UNCHANGED <<running, execs>>

\* ------------------------------------------------------------------------
\* Numbers.  A JavaScript number is modelled as an exact fraction n/d in
\* lowest terms with d > 0.  The rounding of doubles is modelled where
\* calculateRiskScore adds the jitter to the score (ToDouble); the arithmetic
\* of updateWalletProfile is exact.
\* ------------------------------------------------------------------------
RECURSIVE GCD(_, _)
GCD(x, y) == IF y = 0 THEN x ELSE GCD(y, x % y)

Rat(n, d) ==
  LET g == GCD(IF n < 0 THEN -n ELSE n, d)
  IN [n |-> n \div g, d |-> d \div g]
Whole(k) == [n |-> k, d |-> 1]
RatAdd(x, y) == Rat(x.n * y.d + y.n * x.d, x.d * y.d)
RatMulInt(x, k) == Rat(x.n * k, x.d)
RatDivInt(x, k) == Rat(x.n, x.d * k)
RatLE(x, y) == x.n * y.d <= y.n * x.d
RatMin(x, y) == IF RatLE(x, y) THEN x ELSE y
RatMax(x, y) == IF RatLE(x, y) THEN y ELSE x
RatMul(x, y) == Rat(x.n * y.n, x.d * y.d)

\* Bits of the significand of the floating-point format.  A double has 53,
\* which is beyond the integers of the model checker; the format modelled has
\* the same layout and the same rounding (to nearest, ties to even) with fewer
\* bits.
SignificandBits == 6

Pow2(e) == IF e >= 0 THEN Whole(2^e) ELSE Rat(1, 2^(-e))

\* the e with 2^e <= x < 2^(e+1), for x > 0
Exponent(x) ==
  CHOOSE e \in (-SignificandBits)..4 : RatLE(Pow2(e), x) /\ ~RatLE(Pow2(e + 1), x)

\* the integer nearest to t >= 0, the even one of two equally near
RoundHalfEven(t) ==
  LET floor == t.n \div t.d
      twice == 2 * (t.n - floor * t.d)
  IN IF twice < t.d THEN floor
     ELSE IF twice > t.d THEN floor + 1
     ELSE IF floor % 2 = 0 THEN floor ELSE floor + 1

\* the floating-point number that the exact result x >= 0 of an operation is
\* rounded to
ToDouble(x) ==
  IF x.n = 0 THEN x
  ELSE LET ulp == Pow2(Exponent(x) - SignificandBits + 1)
       IN RatMulInt(ulp, RoundHalfEven(RatMul(x, [n |-> ulp.d, d |-> ulp.n])))

\* ------------------------------------------------------------------------
\* Transactions and wallet profiles: the inputs drawn
\* ------------------------------------------------------------------------
\* transactions that can exist (a hash is a number here)
MaxTxs == 2
\* scores handed to updateWalletProfile for one address in SpecFold
MaxFolds == 3

Hashes == 1..MaxTxs
Addresses == {"0xA", "0xB"}
Amounts == {5000, 150000}
Hours == {3, 12}
\* Math.random() * 2.  Math.random() returns a floating-point number r with
\* 0 <= r < 1; the largest is 1 - 2^-SignificandBits, and the largest a
\* generator of SignificandBits - 1 random bits returns is
\* 1 - 2^-(SignificandBits - 1).  The doubling is exact.
Jitters ==
  {Whole(0), Rat(1, 2), Rat(15, 8),
   Rat(2^(SignificandBits - 1) - 1, 2^(SignificandBits - 2)),
   Rat(2^SignificandBits - 1, 2^(SignificandBits - 1))}
\* riskScore values handed to updateWalletProfile in SpecFold
FoldScores == {Whole(0), Whole(4), Whole(8), Rat(19, 2)}

\* amounts of the transactions handed to updateWalletProfile in SpecFold
FoldAmounts == {5000}

EmptyMap == [x \in {} |-> 0]

\* ------------------------------------------------------------------------
\* calculateRiskScore (agents.ts:235-253)
\* ------------------------------------------------------------------------
\* the highest amount tier adding 4 instead of 3
calculateRiskScoreSteep(transaction, jitter) ==
  LET amount == transaction.amount
      s1 == IF amount > 100000 THEN 4
            ELSE IF amount > 50000 THEN 2
            ELSE IF amount > 10000 THEN 1
            ELSE 0
      hour == transaction.hour
      s2 == IF hour >= 22 \/ hour <= 4 THEN s1 + 1 ELSE s1
      score == ToDouble(RatAdd(Whole(s2), jitter))
  IN RatMin(Whole(10), RatMax(Whole(0), score))

\* the amount tiers with inclusive thresholds
calculateRiskScoreInclusive(transaction, jitter) ==
  LET amount == transaction.amount
      s1 == IF amount >= 100000 THEN 3
            ELSE IF amount >= 50000 THEN 2
            ELSE IF amount >= 10000 THEN 1
            ELSE 0
      hour == transaction.hour
      s2 == IF hour >= 22 \/ hour <= 4 THEN s1 + 1 ELSE s1
      score == ToDouble(RatAdd(Whole(s2), jitter))
  IN RatMin(Whole(10), RatMax(Whole(0), score))

\* amount is parseFloat(transaction.amount), hour is timestamp.getHours() and
\* jitter is Math.random() * 2
calculateRiskScore(transaction, jitter) ==
  LET amount == transaction.amount
      s1 == IF amount > 100000 THEN 3
            ELSE IF amount > 50000 THEN 2
            ELSE IF amount > 10000 THEN 1
            ELSE 0
      hour == transaction.hour
      s2 == IF hour >= 22 \/ hour <= 4 THEN s1 + 1 ELSE s1
      score == ToDouble(RatAdd(Whole(s2), jitter))
  IN RatMin(Whole(10), RatMax(Whole(0), score))

\* ------------------------------------------------------------------------
\* updateWalletProfile (agents.ts:255-285)
\* ------------------------------------------------------------------------
\* the tiers with exclusive lower bounds
riskLevelStrict(x) ==
  IF ~RatLE(x, Whole(8)) THEN "critical"
  ELSE IF ~RatLE(x, Whole(6)) THEN "high"
  ELSE IF ~RatLE(x, Whole(4)) THEN "medium"
  ELSE "low"

\* x >= 8 ? 'critical' : x >= 6 ? 'high' : x >= 4 ? 'medium' : 'low'
riskLevel(x) ==
  IF RatLE(Whole(8), x) THEN "critical"
  ELSE IF RatLE(Whole(6), x) THEN "high"
  ELSE IF RatLE(Whole(4), x) THEN "medium"
  ELSE "low"

\* the running mean taken over the old count instead of the new one
updateWalletProfileOldCount(pf, address, transaction) ==
  IF address \in DOMAIN pf
  THEN LET existingProfile == pf[address]
           totalTransactions == existingProfile.totalTransactions + 1
           averageRiskScore ==
             RatDivInt(RatAdd(RatMulInt(existingProfile.averageRiskScore,
                                        existingProfile.totalTransactions),
                              transaction.riskScore),
                       existingProfile.totalTransactions)
       IN [pf EXCEPT ![address] =
             [totalTransactions |-> totalTransactions,
              totalValue |-> existingProfile.totalValue + transaction.amount,
              averageRiskScore |-> averageRiskScore,
              riskLevel |-> riskLevel(averageRiskScore)]]
  ELSE [w \in DOMAIN pf \cup {address} |->
         IF w = address
         THEN [totalTransactions |-> 1,
               totalValue |-> transaction.amount,
               averageRiskScore |-> transaction.riskScore,
               riskLevel |-> riskLevel(transaction.riskScore)]
         ELSE pf[w]]

\* the WalletProfile collection after updateWalletProfile(address, transaction)
updateWalletProfile(pf, address, transaction) ==
  IF address \in DOMAIN pf
  THEN LET existingProfile == pf[address]
           totalTransactions == existingProfile.totalTransactions + 1
           averageRiskScore ==
             RatDivInt(RatAdd(RatMulInt(existingProfile.averageRiskScore,
                                        existingProfile.totalTransactions),
                              transaction.riskScore),
                       totalTransactions)
       IN [pf EXCEPT ![address] =
             [totalTransactions |-> totalTransactions,
              totalValue |-> existingProfile.totalValue + transaction.amount,
              averageRiskScore |-> averageRiskScore,
              riskLevel |-> riskLevel(averageRiskScore)]]
  ELSE [w \in DOMAIN pf \cup {address} |->
         IF w = address
         THEN [totalTransactions |-> 1,
               totalValue |-> transaction.amount,
               averageRiskScore |-> transaction.riskScore,
               riskLevel |-> riskLevel(transaction.riskScore)]
         ELSE pf[w]]

\* ------------------------------------------------------------------------
\* Ingestion: processTransaction (part_001:274-305)
\* ------------------------------------------------------------------------
\* findOne({hash}); if absent, Transaction.create({...txData, riskScore: 0})
processTransaction(hash, from, amount, hour) ==
  /\ hash \notin DOMAIN txs
  /\ txs' = [h \in DOMAIN txs \cup {hash} |->
       IF h = hash
       THEN [fromAddress |-> from, amount |-> amount, hour |-> hour,
             riskScore |-> Whole(0), analyzedAt |-> FALSE, recent |-> TRUE]
       ELSE txs[h]]
  /\ UNCHANGED <<profiles, scoring, folded>>

\* ------------------------------------------------------------------------
\* executeRiskScoring (agents.ts:212-233)
\* ------------------------------------------------------------------------
\* .limit(50)
RiskScoringLimit == 50

IdleScoring == [pc |-> "idle", queue |-> <<>>]

\* the documents of a query, in the order of their hashes
SeqOfSet(S) ==
  [k \in 1..Cardinality(S) |->
     CHOOSE x \in S : Cardinality({y \in S : y <= x}) = k]

Limit(q, n) == IF Len(q) <= n THEN q ELSE SubSeq(q, 1, n)

\* the query without its filter on analyzedAt
unanalyzedTransactionsByScore ==
  LET found == {h \in DOMAIN txs : RatLE(txs[h].riskScore, Whole(0))}
      order == Limit(SeqOfSet(found), RiskScoringLimit)
  IN [k \in 1..Len(order) |->
        [hash |-> order[k], fromAddress |-> txs[order[k]].fromAddress,
         amount |-> txs[order[k]].amount, hour |-> txs[order[k]].hour,
         riskScore |-> txs[order[k]].riskScore]]

\* Transaction.find({analyzedAt: {$exists: false}, riskScore: {$lte: 0}}).limit(50)
\* The documents are copies: a later write to the store does not change them.
unanalyzedTransactions ==
  LET found == {h \in DOMAIN txs :
                  ~txs[h].analyzedAt /\ RatLE(txs[h].riskScore, Whole(0))}
      order == Limit(SeqOfSet(found), RiskScoringLimit)
  IN [k \in 1..Len(order) |->
        [hash |-> order[k], fromAddress |-> txs[order[k]].fromAddress,
         amount |-> txs[order[k]].amount, hour |-> txs[order[k]].hour,
         riskScore |-> txs[order[k]].riskScore]]

\* the handler is invoked and its query returns
executeRiskScoring ==
  /\ scoring.pc = "idle"
  /\ scoring' = IF unanalyzedTransactions = <<>> THEN IdleScoring
                ELSE [pc |-> "score", queue |-> unanalyzedTransactions]
  /\ UNCHANGED <<txs, profiles, folded>>

\* riskScore = calculateRiskScore(tx);
\* Transaction.findByIdAndUpdate(tx._id, {riskScore, analyzedAt: new Date()})
ScoreTransaction ==
  /\ scoring.pc = "score"
  /\ LET tx == Head(scoring.queue)
     IN \E jitter \in Jitters :
          txs' = [txs EXCEPT ![tx.hash].riskScore = calculateRiskScore(tx, jitter),
                             ![tx.hash].analyzedAt = TRUE]
  /\ scoring' = [scoring EXCEPT !.pc = "fold"]
  /\ UNCHANGED <<profiles, folded>>

\* await this.updateWalletProfile(tx.fromAddress, tx), tx being the document
\* the query returned; then the next turn of the loop
FoldTransaction ==
  /\ scoring.pc = "fold"
  /\ LET tx == Head(scoring.queue)
     IN /\ profiles' = updateWalletProfile(profiles, tx.fromAddress, tx)
        /\ folded' = [folded EXCEPT ![tx.fromAddress] = Append(@, tx.riskScore)]
  /\ scoring' = IF Len(scoring.queue) = 1 THEN IdleScoring
                ELSE [pc |-> "score", queue |-> Tail(scoring.queue)]
  /\ UNCHANGED txs

\* an awaited store operation of the handler rejects (Transaction.find,
\* Transaction.findByIdAndUpdate, WalletProfile.findOne, findByIdAndUpdate or
\* create): the handler ends there and the error goes up to the cycle that
\* invoked it
ScoringStoreFails ==
  /\ scoring.pc # "idle"
  /\ scoring' = IdleScoring
  /\ UNCHANGED <<txs, profiles, folded>>

\* ------------------------------------------------------------------------
\* updateWalletProfile applied to drawn scores
\* ------------------------------------------------------------------------
Fold(address, score, amount) ==
  /\ Len(folded[address]) < MaxFolds
  /\ profiles' = updateWalletProfile(profiles, address,
       [fromAddress |-> address, amount |-> amount, riskScore |-> score])
  /\ folded' = [folded EXCEPT ![address] = Append(@, score)]
  /\ UNCHANGED <<txs, scoring>>

WalletInit ==
  /\ txs = EmptyMap
  /\ profiles = EmptyMap
  /\ scoring = IdleScoring
  /\ folded = [w \in Addresses |-> <<>>]

\* ------------------------------------------------------------------------
\* State of the alert handlers, of ingestion, of the reporting handler and of
\* the bootstrap
\* ------------------------------------------------------------------------
VARIABLES
  alerts,             \* the Alert collection: the documents in insertion order
  alertRuns,          \* handler -> the run of that handler in progress
  runLog,             \* history: the handlers invoked, in order of invocation
  severityThreshold,  \* config.severityThreshold of the alerting agent
  ingest,             \* network -> the call of processTransaction in progress
  ingested,           \* history: the hashes Transaction.create has inserted, in order
  lastScore,          \* the last call of calculateRiskScore: its input and result
  reports,            \* the Report collection: the documents in insertion order
  reporting,          \* the run of executeReporting in progress
  agentDocs,          \* the Agent collection as documents, in insertion order
  boot,               \* the run of initializeDefaultAgents in progress
  stopped,            \* history: stop() was called on the started manager and start() not since
  isMonitoring,       \* BlockchainService.isMonitoring
  chains              \* network -> the calls of simulateNetworkMonitoring in progress and its pending timers

alertVars == <<alerts, alertRuns, runLog, severityThreshold>>
ingestVars == <<ingest, ingested>>
scoreVars == <<lastScore>>
reportVars == <<reports, reporting>>
bootVars == <<agentDocs, boot>>

\* everything but the scheduler's state
lifeVars == <<stopped>>
monitorVars == <<isMonitoring, chains>>
dataVars == <<walletVars, alertVars, ingestVars, scoreVars, reportVars, bootVars,
              monitorVars, lifeVars>>

\* the handlers that create alerts
AlertHandlers == {"behavior_analysis", "alerting"}
IdleHandler == [pc |-> "idle", queue |-> <<>>, run |-> 0]

\* private networks = ['ethereum', 'bitcoin', 'polygon', 'bsc']; two of the
\* monitoring loops are modelled
Networks == {"ethereum", "bitcoin"}
\* a monitoring loop's call of processTransaction: pc is the point it is
\* suspended at, hash the hash of txData.  Three fields are history: done (the
\* hashes whose submission by this loop has returned), rejected (an insert of
\* this loop was rejected by the unique index on hash) and error (an error of
\* processTransaction reached the loop)
IdleIngest == [pc |-> "idle", hash |-> 0, done |-> {}, rejected |-> FALSE,
               error |-> FALSE]

NoScore == [amount |-> -1, hour |-> -1, jitter |-> Whole(0), score |-> Whole(0)]

IdleReporting == [pc |-> "idle", queue |-> <<>>, i |-> 0]

IdleBoot == [pc |-> "idle", i |-> 0, runs |-> 0]

AlertsAtRest ==
  /\ alerts = <<>>
  /\ alertRuns = [h \in AlertHandlers |-> IdleHandler]
  /\ runLog = <<>>
  /\ severityThreshold = "medium"

IngestAtRest ==
  /\ ingest = [n \in Networks |-> IdleIngest]
  /\ ingested = <<>>

ScoreAtRest == lastScore = NoScore

ReportsAtRest ==
  /\ reports = <<>>
  /\ reporting = IdleReporting

BootAtRest ==
  /\ agentDocs = <<>>
  /\ boot = IdleBoot

\* a call of simulateNetworkMonitoring is in progress (running: it is suspended
\* at an await of processTransaction) or has armed its timer (pending)
NoChain == [running |-> 0, pending |-> 0]

\* private isMonitoring = false
MonitorAtRest ==
  /\ isMonitoring = FALSE
  /\ chains = [n \in Networks |-> NoChain]

LifeAtRest == stopped = FALSE

\* ------------------------------------------------------------------------
\* The scheduler's specification
\* ------------------------------------------------------------------------
vars == <<running, intervals, timers, execs, agentStore, paused,
          txs, profiles, scoring, folded,
          alerts, alertRuns, runLog, severityThreshold, ingest, ingested,
          lastScore, reports, reporting, agentDocs, boot,
          stopped, isMonitoring, chains>>

\* the AgentManager as constructed; the Agent records as a previous run of the
\* process may have left them
Init ==
  /\ running = FALSE
  /\ intervals = [a \in BootAgents |-> NoTimer]
  /\ timers = [a \in BootAgents |-> [t \in TimerIds |-> NotArmed]]
  /\ execs = [a \in BootAgents |-> [e \in ExecIds |-> IdleExec]]
  /\ agentStore \in [BootAgents ->
       [status : AgentStatus, progress : {0}, nextRun : {"past", "set"}]]
  /\ paused = [a \in BootAgents |-> FALSE]
  /\ WalletInit
  /\ AlertsAtRest /\ IngestAtRest /\ ScoreAtRest /\ ReportsAtRest /\ MonitorAtRest /\ LifeAtRest /\ BootAtRest

Next ==
  \/ start /\ UNCHANGED dataVars
  \/ stop /\ UNCHANGED dataVars
  \/ \E a \in Agents, t \in TimerIds : TimerFires(a, t) /\ UNCHANGED dataVars
  \/ \E a \in Agents, e \in ExecIds : WriteProcessing(a, e) /\ UNCHANGED dataVars
  \/ \E a \in Agents, e \in ExecIds : LadderStep(a, e) /\ UNCHANGED dataVars
  \/ \E a \in Agents, e \in ExecIds : FinishCycle(a, e) /\ UNCHANGED dataVars
  \/ \E a \in Agents, e \in ExecIds : StoreWriteFails(a, e) /\ UNCHANGED dataVars
  \/ \E a \in Agents, e \in ExecIds : CatchWrite(a, e) /\ UNCHANGED dataVars
  \/ \E a \in Agents, e \in ExecIds : ErrorWriteFails(a, e) /\ UNCHANGED dataVars
  \/ \E a \in Agents, e \in ExecIds : ClosureReturns(a, e) /\ UNCHANGED dataVars
  \/ \E a \in Agents, st \in UpdateStatuses, pr \in UpdateProgresses :
       /\ st # NoField \/ pr # -1
       /\ updateAgentStatus(a, st, pr)
       /\ UNCHANGED dataVars

Spec == Init /\ [][Next]_vars

\* ------------------------------------------------------------------------
\* Specifications of the wallet aggregation and of the risk-scoring handler,
\* run on their own: the manager is not started
\* ------------------------------------------------------------------------
schedVars == <<running, intervals, timers, execs, agentStore, paused>>

SchedulerOff ==
  /\ running = FALSE
  /\ intervals = [a \in BootAgents |-> NoTimer]
  /\ timers = [a \in BootAgents |-> [t \in TimerIds |-> NotArmed]]
  /\ execs = [a \in BootAgents |-> [e \in ExecIds |-> IdleExec]]
  /\ agentStore = [a \in BootAgents |->
       [status |-> "active", progress |-> 0, nextRun |-> "past"]]
  /\ paused = [a \in BootAgents |-> FALSE]

InitWallet ==
  /\ SchedulerOff
  /\ WalletInit
  /\ AlertsAtRest /\ IngestAtRest /\ ScoreAtRest /\ ReportsAtRest /\ MonitorAtRest /\ LifeAtRest /\ BootAtRest

\* what the wallet aggregation and risk scoring leave alone
walletRest == <<schedVars, monitorVars, lifeVars, alertVars, ingestVars, scoreVars, reportVars, bootVars>>

\* updateWalletProfile given any sequence of scores
NextFold ==
  \E address \in Addresses, score \in FoldScores, amount \in FoldAmounts :
    Fold(address, score, amount) /\ UNCHANGED walletRest

SpecFold == InitWallet /\ [][NextFold]_vars

\* runs of the risk_scoring handler, one after another, and transactions
\* arriving in between
NextScoring ==
  \/ \E hash \in Hashes, from \in Addresses, amount \in Amounts, hour \in Hours :
       processTransaction(hash, from, amount, hour) /\ UNCHANGED walletRest
  \/ executeRiskScoring /\ UNCHANGED walletRest
  \/ ScoreTransaction /\ UNCHANGED walletRest
  \/ FoldTransaction /\ UNCHANGED walletRest
  \/ ScoringStoreFails /\ UNCHANGED walletRest

SpecScoring == InitWallet /\ [][NextScoring]_vars

\* ------------------------------------------------------------------------
\* The handlers that create alerts: executeBehaviorAnalysis (agents.ts:177-210)
\* and executeAlerting (agents.ts:295-327)
\* ------------------------------------------------------------------------
\* invocations of the two handlers in one behaviour
MaxRuns == 3

\* riskScore of the transactions the handlers are run against
AlertScores == {Whole(6), Whole(8), Whole(9)}

\* .limit(10) of both handlers' queries
BehaviorAnalysisLimit == 10
AlertingLimit == 10

\* the documents a query returns for the hashes S: copies, in the order of
\* their hashes
Docs(S) ==
  LET order == SeqOfSet(S)
  IN [k \in 1..Len(order) |->
        [hash |-> order[k], fromAddress |-> txs[order[k]].fromAddress,
         riskScore |-> txs[order[k]].riskScore]]

\* Transaction.find({timestamp: {$gte: cutoffTime}, riskScore: {$gte: 7}}).limit(10)
suspiciousTransactions ==
  Limit(Docs({h \in DOMAIN txs :
                txs[h].recent /\ RatLE(Whole(7), txs[h].riskScore)}),
        BehaviorAnalysisLimit)

\* Transaction.find({riskScore: {$gte: severityThreshold === 'high' ? 8 : 6},
\*                   analyzedAt: {$exists: true}}).limit(10)
highRiskTransactions ==
  Limit(Docs({h \in DOMAIN txs :
                /\ RatLE(Whole(IF severityThreshold = "high" THEN 8 ELSE 6),
                         txs[h].riskScore)
                /\ txs[h].analyzedAt}),
        AlertingLimit)

\* an existence check that finds nothing
existingAlertNone(al, hash) == FALSE

\* Alert.findOne({ transactionHash: tx.hash })
existingAlert(al, hash) == \E k \in 1..Len(al) : al[k].transactionHash = hash

\* behavior_analysis: if (!existingAlert && tx.riskScore >= 8); alerting: if (!existingAlert)
createsAlert(h, tx) ==
  IF h = "behavior_analysis" THEN RatLE(Whole(8), tx.riskScore) ELSE TRUE

\* behavior_analysis: tx.riskScore >= 9 ? 'critical' : 'high'
\* alerting: tx.riskScore >= 9 ? 'critical' : tx.riskScore >= 7 ? 'high' : 'medium'
severity(h, tx) ==
  IF RatLE(Whole(9), tx.riskScore) THEN "critical"
  ELSE IF h = "behavior_analysis" THEN "high"
  ELSE IF RatLE(Whole(7), tx.riskScore) THEN "high"
  ELSE "medium"

alertType(h) == IF h = "behavior_analysis" THEN "pattern_analysis" ELSE "risk_threshold"

\* the next turn of the loop over the query's documents
NextTx(x) ==
  IF Len(x.queue) = 1 THEN IdleHandler
  ELSE [x EXCEPT !.pc = "find", !.queue = Tail(@)]

\* runLog is history: the first MaxRuns invocations, in order
Logged(h) == IF Len(runLog) < MaxRuns THEN Append(runLog, h) ELSE runLog

\* the handler is invoked and its query returns
executeBehaviorAnalysis ==
  /\ alertRuns["behavior_analysis"].pc = "idle"
  /\ runLog' = Logged("behavior_analysis")
  /\ alertRuns' = [alertRuns EXCEPT !["behavior_analysis"] =
       IF suspiciousTransactions = <<>> THEN IdleHandler
       ELSE [pc |-> "find", queue |-> suspiciousTransactions,
             run |-> Len(runLog) + 1]]
  /\ UNCHANGED <<alerts, severityThreshold>>

\* the handler is invoked: openAlerts = await Alert.find({status:'open'}).limit(20)
executeAlerting ==
  /\ alertRuns["alerting"].pc = "idle"
  /\ runLog' = Logged("alerting")
  /\ alertRuns' = [alertRuns EXCEPT !["alerting"] =
       [pc |-> "query", queue |-> <<>>, run |-> Len(runLog) + 1]]
  /\ UNCHANGED <<alerts, severityThreshold>>

\* highRiskTransactions = await Transaction.find(...).limit(10)
QueryHighRisk ==
  /\ alertRuns["alerting"].pc = "query"
  /\ alertRuns' = [alertRuns EXCEPT !["alerting"] =
       IF highRiskTransactions = <<>> THEN IdleHandler
       ELSE [@ EXCEPT !.pc = "find", !.queue = highRiskTransactions]]
  /\ UNCHANGED <<alerts, runLog, severityThreshold>>

\* existingAlert = await Alert.findOne({transactionHash: tx.hash}), and the test
FindExistingAlert(h) ==
  LET x == alertRuns[h]
      tx == Head(x.queue)
  IN /\ x.pc = "find"
     /\ alertRuns' = [alertRuns EXCEPT ![h] =
          IF ~existingAlert(alerts, tx.hash) /\ createsAlert(h, tx)
          THEN [x EXCEPT !.pc = "create"]
          ELSE NextTx(x)]
     /\ UNCHANGED <<alerts, runLog, severityThreshold>>

\* await Alert.create({...}); run is history: the invocation that created it
CreateAlert(h) ==
  LET x == alertRuns[h]
      tx == Head(x.queue)
  IN /\ x.pc = "create"
     /\ alerts' = Append(alerts,
          [transactionHash |-> tx.hash, severity |-> severity(h, tx),
           type |-> alertType(h), run |-> x.run])
     /\ alertRuns' = [alertRuns EXCEPT ![h] = NextTx(x)]
     /\ UNCHANGED <<runLog, severityThreshold>>

\* the transactions the handlers are run against, and the agent's config
AlertsInit ==
  /\ txs \in [Hashes ->
       [fromAddress : {"0xA"}, amount : {5000}, hour : {12},
        riskScore : AlertScores, analyzedAt : BOOLEAN, recent : BOOLEAN]]
  /\ profiles = EmptyMap
  /\ scoring = IdleScoring
  /\ folded = [w \in Addresses |-> <<>>]
  /\ alerts = <<>>
  /\ alertRuns = [h \in AlertHandlers |-> IdleHandler]
  /\ runLog = <<>>
  /\ severityThreshold \in {"medium", "high"}

InitAlerts ==
  /\ SchedulerOff
  /\ AlertsInit
  /\ IngestAtRest /\ ScoreAtRest /\ ReportsAtRest /\ MonitorAtRest /\ LifeAtRest /\ BootAtRest

\* what the alert handlers leave alone
alertRest == <<schedVars, monitorVars, lifeVars, walletVars, ingestVars, scoreVars, reportVars, bootVars>>

\* the two handlers, their steps interleaved in any order, up to MaxRuns
\* invocations
NextAlerts ==
  \/ Len(runLog) < MaxRuns /\ executeBehaviorAnalysis /\ UNCHANGED alertRest
  \/ Len(runLog) < MaxRuns /\ executeAlerting /\ UNCHANGED alertRest
  \/ QueryHighRisk /\ UNCHANGED alertRest
  \/ \E h \in AlertHandlers : FindExistingAlert(h) /\ UNCHANGED alertRest
  \/ \E h \in AlertHandlers : CreateAlert(h) /\ UNCHANGED alertRest

SpecAlerts == InitAlerts /\ [][NextAlerts]_vars

HandlersIdle == \A h \in AlertHandlers : alertRuns[h].pc = "idle"

\* the two handlers, each run completing before the next is invoked
NextAlertRuns ==
  \/ HandlersIdle /\ Len(runLog) < MaxRuns /\ executeBehaviorAnalysis /\ UNCHANGED alertRest
  \/ HandlersIdle /\ Len(runLog) < MaxRuns /\ executeAlerting /\ UNCHANGED alertRest
  \/ QueryHighRisk /\ UNCHANGED alertRest
  \/ \E h \in AlertHandlers : FindExistingAlert(h) /\ UNCHANGED alertRest
  \/ \E h \in AlertHandlers : CreateAlert(h) /\ UNCHANGED alertRest

SpecAlertRuns == InitAlerts /\ [][NextAlertRuns]_vars

\* ------------------------------------------------------------------------
\* The alerting handler invoked again and again against a transaction set
\* that does not change and is larger than the limit of its query
\* ------------------------------------------------------------------------
LiveHashes == 1..(AlertingLimit + 1)

\* eleven transactions; the first and the last drawn, the others analyzed
\* with riskScore 8
AlertsLiveInit ==
  /\ \E first, last \in [fromAddress : {"0xA"}, amount : {5000}, hour : {12},
                         riskScore : AlertScores, analyzedAt : BOOLEAN,
                         recent : {FALSE}] :
       txs = [h \in LiveHashes |->
                IF h = 1 THEN first
                ELSE IF h = AlertingLimit + 1 THEN last
                ELSE [fromAddress |-> "0xA", amount |-> 5000, hour |-> 12,
                      riskScore |-> Whole(8), analyzedAt |-> TRUE,
                      recent |-> FALSE]]
  /\ profiles = EmptyMap
  /\ scoring = IdleScoring
  /\ folded = [w \in Addresses |-> <<>>]
  /\ alerts = <<>>
  /\ alertRuns = [h \in AlertHandlers |-> IdleHandler]
  /\ runLog = <<>>
  /\ severityThreshold \in {"medium", "high"}

InitAlertsLive ==
  /\ SchedulerOff
  /\ AlertsLiveInit
  /\ IngestAtRest /\ ScoreAtRest /\ ReportsAtRest /\ MonitorAtRest /\ LifeAtRest /\ BootAtRest

\* the alerting handler's steps
AlertingStep ==
  \/ executeAlerting
  \/ QueryHighRisk
  \/ FindExistingAlert("alerting")
  \/ CreateAlert("alerting")

NextAlertsLive == AlertingStep /\ UNCHANGED alertRest

\* The agent's timer re-arms after every cycle (agents.ts:64-72), so the
\* handler is invoked again whenever it is idle, and each awaited store
\* operation of a run returns.
SpecAlertsLive ==
  /\ InitAlertsLive
  /\ [][NextAlertsLive]_vars
  /\ WF_vars(NextAlertsLive)

\* ------------------------------------------------------------------------
\* Ingestion step by step: processTransaction (part_001:274-305) called by the
\* monitoring loops of the networks (part_001:163-191)
\* ------------------------------------------------------------------------
\* a collection without the unique index on hash
hashIndexOff(docs, hash) == FALSE

\* hash: { type: String, required: true, unique: true, index: true }: an insert
\* of a hash the collection holds is rejected (duplicate key)
hashIndexRejects(docs, hash) == \E k \in 1..Len(docs) : docs[k] = hash

\* catch (error) { console.error('Error processing transaction:', error); }
CatchSwallows == TRUE

\* for (const txData of transactions) await this.processTransaction(txData):
\* the call runs up to existingTx = await Transaction.findOne({hash})
SubmitTransaction(n, hash) ==
  /\ ingest[n].pc = "idle"
  /\ ingest' = [ingest EXCEPT ![n].pc = "find", ![n].hash = hash]
  /\ UNCHANGED <<ingested, txs>>

\* findOne returns; if (existingTx) return; else Transaction.create is issued
FindExistingTx(n) ==
  LET x == ingest[n]
  IN /\ x.pc = "find"
     /\ ingest' = [ingest EXCEPT ![n] =
          IF \E k \in 1..Len(ingested) : ingested[k] = x.hash
          THEN [x EXCEPT !.pc = "idle", !.done = @ \cup {x.hash}]
          ELSE [x EXCEPT !.pc = "create"]]
     /\ UNCHANGED <<ingested, txs>>

\* await Transaction.create({...txData, riskScore: 0}) returns or is rejected
\* by the unique index; a rejection is thrown inside the try block
CreateTx(n) ==
  LET x == ingest[n]
      duplicate == hashIndexRejects(ingested, x.hash)
  IN /\ x.pc = "create"
     /\ ingested' = IF duplicate THEN ingested ELSE Append(ingested, x.hash)
     /\ txs' = IF duplicate \/ x.hash \in DOMAIN txs THEN txs
               ELSE [h \in DOMAIN txs \cup {x.hash} |->
                      IF h = x.hash
                      THEN [fromAddress |-> "0xA", amount |-> 5000, hour |-> 12,
                            riskScore |-> Whole(0), analyzedAt |-> FALSE,
                            recent |-> TRUE]
                      ELSE txs[h]]
     /\ ingest' = [ingest EXCEPT ![n] =
          [x EXCEPT !.pc = "idle", !.done = @ \cup {x.hash},
                    !.rejected = @ \/ duplicate,
                    !.error = @ \/ (duplicate /\ ~CatchSwallows)]]

\* what ingestion leaves alone
ingestRest == <<schedVars, monitorVars, lifeVars, profiles, scoring, folded, alertVars, scoreVars,
                reportVars, bootVars>>

NextIngest ==
  \/ \E n \in Networks, hash \in Hashes :
       SubmitTransaction(n, hash) /\ UNCHANGED ingestRest
  \/ \E n \in Networks : FindExistingTx(n) /\ UNCHANGED ingestRest
  \/ \E n \in Networks : CreateTx(n) /\ UNCHANGED ingestRest

SpecIngest == InitWallet /\ [][NextIngest]_vars

\* ------------------------------------------------------------------------
\* calculateRiskScore applied to drawn transactions
\* ------------------------------------------------------------------------
\* amounts at, next to and away from the thresholds of the amount tiers
ScoreAmounts == {5000, 10000, 10001, 50000, 50001, 100000, 100001, 150000}
\* Date.getHours()
HoursOfDay == 0..23

Score(amount, hour, jitter) ==
  lastScore' = [amount |-> amount, hour |-> hour, jitter |-> jitter,
                score |-> calculateRiskScore([amount |-> amount, hour |-> hour],
                                             jitter)]

\* what calculateRiskScore leaves alone
scoreRest == <<schedVars, monitorVars, lifeVars, walletVars, alertVars, ingestVars, reportVars, bootVars>>

NextScore ==
  \E amount \in ScoreAmounts, hour \in HoursOfDay, jitter \in Jitters :
    Score(amount, hour, jitter) /\ UNCHANGED scoreRest

SpecScore == InitWallet /\ [][NextScore]_vars

\* ------------------------------------------------------------------------
\* The reporting handler: executeReporting (agents.ts:329-361) and
\* generateReport (agents.ts:363-384); reports created by POST /api/reports
\* (routes.ts:434-442)
\* ------------------------------------------------------------------------
\* documents the Report collection can hold
MaxReports == 3

\* .limit(5)
ReportingLimit == 5

\* a progress ladder with two steps exchanged
progressStepsSwapped == <<20, 40, 80, 60, 100>>

\* const progressSteps = [20, 40, 60, 80, 100];
progressSteps == <<20, 40, 60, 80, 100>>

\* scheduledFor of a report: absent, a time before now or a time after now
ScheduledFor == {"unset", "past", "future"}

\* A Report document.  today: createdAt lies after the last local midnight.
\* Two fields are history: createdAs (the status it was created with) and log
\* (the writes generateReport applied to it, in order).
NewReport(type, status, scheduledFor, by) ==
  [type |-> type, status |-> status, progress |-> 0,
   scheduledFor |-> scheduledFor, today |-> TRUE, generatedBy |-> by,
   createdAs |-> status, log |-> <<>>]

\* POST /api/reports: storage.createReport({...req.body, generatedBy, status: 'scheduled'})
createReport(scheduledFor) ==
  /\ Len(reports) < MaxReports
  /\ reports' = Append(reports, NewReport("custom", "scheduled", scheduledFor, "user"))
  /\ UNCHANGED reporting

\* time passes: the scheduledFor of a report is reached
ReportComesDue(r) ==
  /\ reports[r].scheduledFor = "future"
  /\ reports' = [reports EXCEPT ![r].scheduledFor = "past"]
  /\ UNCHANGED reporting

\* time passes: local midnight
NewDay ==
  /\ \E r \in 1..Len(reports) : reports[r].today
  /\ reports' = [r \in 1..Len(reports) |-> [reports[r] EXCEPT !.today = FALSE]]
  /\ UNCHANGED reporting

RECURSIVE SeqOfSetOfNat(_)
SeqOfSetOfNat(S) ==
  IF S = {} THEN <<>>
  ELSE LET r == CHOOSE x \in S : \A y \in S : x <= y
       IN <<r>> \o SeqOfSetOfNat(S \ {r})

\* Report.find({status: 'scheduled', scheduledFor: {$lte: new Date()}}).limit(5)
pendingReports ==
  Limit(SeqOfSetOfNat({r \in 1..Len(reports) :
                         /\ reports[r].status = "scheduled"
                         /\ reports[r].scheduledFor = "past"}),
        ReportingLimit)

\* the handler is invoked and its query returns
executeReporting ==
  /\ reporting.pc = "idle"
  /\ reporting' = IF pendingReports = <<>>
                  THEN [pc |-> "summary", queue |-> <<>>, i |-> 0]
                  ELSE [pc |-> "start", queue |-> pendingReports, i |-> 0]
  /\ UNCHANGED reports

ReportWrite(st, pr) == [status |-> st, progress |-> pr]

\* generateReport: Report.findByIdAndUpdate(report._id, {status: 'generating', progress: 0})
StartGenerating ==
  LET r == Head(reporting.queue)
  IN /\ reporting.pc = "start"
     /\ reports' = [reports EXCEPT ![r] =
          [@ EXCEPT !.status = "generating", !.progress = 0,
                    !.log = Append(@, ReportWrite("generating", 0))]]
     /\ reporting' = [reporting EXCEPT !.pc = "progress", !.i = 1]

\* one turn of the loop over progressSteps: the delay of 500 ms and
\* Report.findByIdAndUpdate(report._id, { progress })
ReportProgress ==
  LET r == Head(reporting.queue)
      progress == progressSteps[reporting.i]
  IN /\ reporting.pc = "progress"
     /\ reports' = [reports EXCEPT ![r] =
          [@ EXCEPT !.progress = progress,
                    !.log = Append(@, ReportWrite(NoField, progress))]]
     /\ reporting' = IF reporting.i < Len(progressSteps)
                     THEN [reporting EXCEPT !.i = @ + 1]
                     ELSE [reporting EXCEPT !.pc = "complete"]

\* Report.findByIdAndUpdate(report._id, {status: 'completed', progress: 100, ...});
\* then the next report of the loop, or the daily summary's existence check
CompleteReport ==
  LET r == Head(reporting.queue)
  IN /\ reporting.pc = "complete"
     /\ reports' = [reports EXCEPT ![r] =
          [@ EXCEPT !.status = "completed", !.progress = 100,
                    !.log = Append(@, ReportWrite("completed", 100))]]
     /\ reporting' = IF Len(reporting.queue) = 1
                     THEN [pc |-> "summary", queue |-> <<>>, i |-> 0]
                     ELSE [pc |-> "start", queue |-> Tail(reporting.queue), i |-> 0]

\* an awaited store operation of the handler rejects: the handler ends and the
\* error goes up to the cycle that invoked it
ReportStoreFails ==
  /\ reporting.pc # "idle"
  /\ reporting' = IdleReporting
  /\ UNCHANGED reports

\* an existence check that finds nothing
dailySummaryExistsNever == FALSE

\* Report.findOne({type: 'daily_summary', createdAt: {$gte: today}})
dailySummaryExists ==
  \E r \in 1..Len(reports) : reports[r].type = "daily_summary" /\ reports[r].today

DailySummaryCheck ==
  /\ reporting.pc = "summary"
  /\ reporting' = IF dailySummaryExists THEN IdleReporting
                  ELSE [reporting EXCEPT !.pc = "create"]
  /\ UNCHANGED reports

\* Report.create({type: 'daily_summary', status: 'generating', format: 'pdf',
\*                generatedBy: 'system', ...})
CreateDailySummary ==
  /\ reporting.pc = "create"
  /\ Len(reports) < MaxReports
  /\ reports' = Append(reports, NewReport("daily_summary", "generating", "unset", "system"))
  /\ reporting' = IdleReporting

\* what the reporting handler leaves alone
reportRest == <<schedVars, monitorVars, lifeVars, walletVars, alertVars, ingestVars, scoreVars, bootVars>>

\* runs of the reporting handler, one after another, reports created through
\* the API and time passing in between
NextReporting ==
  \/ \E scheduledFor \in ScheduledFor : createReport(scheduledFor) /\ UNCHANGED reportRest
  \/ \E r \in 1..Len(reports) : ReportComesDue(r) /\ UNCHANGED reportRest
  \/ NewDay /\ UNCHANGED reportRest
  \/ executeReporting /\ UNCHANGED reportRest
  \/ StartGenerating /\ UNCHANGED reportRest
  \/ ReportProgress /\ UNCHANGED reportRest
  \/ CompleteReport /\ UNCHANGED reportRest
  \/ ReportStoreFails /\ UNCHANGED reportRest
  \/ DailySummaryCheck /\ UNCHANGED reportRest
  \/ CreateDailySummary /\ UNCHANGED reportRest

SpecReporting == InitWallet /\ [][NextReporting]_vars

\* ------------------------------------------------------------------------
\* Bootstrap of the Agent collection: initializeDefaultAgents (part_001:27-69),
\* run by connectToMongoDB at every start of the process
\* ------------------------------------------------------------------------
\* runs of the bootstrap in one behaviour
MaxBoots == 2

\* the types of the array defaultAgents, in its order
defaultAgents ==
  <<"transaction_monitor", "behavior_analysis", "risk_scoring", "alerting", "reporting">>

\* an existence check that finds nothing
existingAgentNone(docs, type) == FALSE

\* Agent.findOne({ type: agentData.type })
existingAgent(docs, type) == \E k \in 1..Len(docs) : docs[k].type = type

\* the next turn of the loop over defaultAgents; runs is history: the runs
\* that have returned
NextAgent(b) ==
  IF b.i < Len(defaultAgents) THEN [b EXCEPT !.pc = "find", !.i = @ + 1]
  ELSE [pc |-> "idle", i |-> 0, runs |-> b.runs + 1]

\* the bootstrap is called and issues the first findOne
initializeDefaultAgents ==
  /\ boot.pc = "idle"
  /\ boot.runs < MaxBoots
  /\ boot' = [boot EXCEPT !.pc = "find", !.i = 1]
  /\ UNCHANGED agentDocs

\* existingAgent = await Agent.findOne({type}); if (!existingAgent) ...
FindExistingAgent ==
  /\ boot.pc = "find"
  /\ boot' = IF existingAgent(agentDocs, defaultAgents[boot.i])
             THEN NextAgent(boot)
             ELSE [boot EXCEPT !.pc = "create"]
  /\ UNCHANGED agentDocs

\* await Agent.create({...agentData, status: 'active', nextRun})
CreateAgent ==
  /\ boot.pc = "create"
  /\ agentDocs' = Append(agentDocs,
       [type |-> defaultAgents[boot.i], status |-> "active", progress |-> 0,
        intervalSeconds |-> intervalSeconds(defaultAgents[boot.i]),
        nextRun |-> "set"])
  /\ boot' = NextAgent(boot)

\* the documents earlier runs of the process left: at most one per type, in
\* the order of defaultAgents, with the status the scheduler or an update wrote
LeftBy(f) ==
  LET present == {k \in 1..Len(defaultAgents) : f[k] # "absent"}
      order == SeqOfSetOfNat(present)
  IN [k \in 1..Len(order) |->
        [type |-> defaultAgents[order[k]], status |-> f[order[k]], progress |-> 0,
         intervalSeconds |-> intervalSeconds(defaultAgents[order[k]]),
         nextRun |-> "past"]]

BootInit ==
  /\ \E f \in [1..Len(defaultAgents) -> {"absent", "active", "inactive", "error"}] :
       agentDocs = LeftBy(f)
  /\ boot = IdleBoot

InitBoot ==
  /\ SchedulerOff
  /\ WalletInit
  /\ AlertsAtRest /\ IngestAtRest /\ ScoreAtRest /\ ReportsAtRest /\ MonitorAtRest /\ LifeAtRest
  /\ BootInit

\* what the bootstrap leaves alone
bootRest == <<schedVars, monitorVars, lifeVars, walletVars, alertVars, ingestVars, scoreVars, reportVars>>

NextBoot ==
  \/ initializeDefaultAgents /\ UNCHANGED bootRest
  \/ FindExistingAgent /\ UNCHANGED bootRest
  \/ CreateAgent /\ UNCHANGED bootRest

SpecBoot == InitBoot /\ [][NextBoot]_vars

\* ------------------------------------------------------------------------
\* The reporting handler invoked again and again, every store operation
\* succeeding
\* ------------------------------------------------------------------------
\* the handler's steps
ReportingStep ==
  \/ executeReporting
  \/ StartGenerating
  \/ ReportProgress
  \/ CompleteReport
  \/ DailySummaryCheck
  \/ CreateDailySummary

\* one day of the handler's runs; reports arrive through the API while the
\* collection has room for them and for the day's summary
NextReportingLive ==
  \/ \E scheduledFor \in ScheduledFor :
       /\ Len(reports) < MaxReports - 1
       /\ createReport(scheduledFor) /\ UNCHANGED reportRest
  \/ \E r \in 1..Len(reports) : ReportComesDue(r) /\ UNCHANGED reportRest
  \/ ReportingStep /\ UNCHANGED reportRest

\* The agent's timer re-arms after every cycle (agents.ts:64-72), so the
\* handler is invoked again whenever it is idle, and each awaited store
\* operation of a run returns; time passes, so a scheduledFor in the future is
\* reached.
SpecReportingLive ==
  /\ InitWallet
  /\ [][NextReportingLive]_vars
  /\ WF_vars(ReportingStep /\ UNCHANGED reportRest)
  /\ \A r \in 1..MaxReports :
       WF_vars(r <= Len(reports) /\ ReportComesDue(r) /\ UNCHANGED reportRest)

\* ------------------------------------------------------------------------
\* The scheduler with two agents: their cycles after start(), every awaited
\* write free to reject
\* ------------------------------------------------------------------------
\* two of the agents of the bootstrap
FrameAgents == {"risk_scoring", "alerting"}

InitFrame ==
  /\ running = FALSE
  /\ intervals = [a \in FrameAgents |-> NoTimer]
  /\ timers = [a \in FrameAgents |-> [t \in TimerIds |-> NotArmed]]
  /\ execs = [a \in FrameAgents |-> [e \in ExecIds |-> IdleExec]]
  /\ agentStore \in [FrameAgents ->
       [status : {"active"}, progress : {0}, nextRun : {"past", "set"}]]
  /\ paused = [a \in FrameAgents |-> FALSE]
  /\ WalletInit
  /\ AlertsAtRest /\ IngestAtRest /\ ScoreAtRest /\ ReportsAtRest /\ MonitorAtRest /\ LifeAtRest /\ BootAtRest

NextFrame ==
  \/ start /\ UNCHANGED dataVars
  \/ \E a \in Agents, t \in TimerIds : TimerFires(a, t) /\ UNCHANGED dataVars
  \/ \E a \in Agents, e \in ExecIds : WriteProcessing(a, e) /\ UNCHANGED dataVars
  \/ \E a \in Agents, e \in ExecIds : LadderStep(a, e) /\ UNCHANGED dataVars
  \/ \E a \in Agents, e \in ExecIds : FinishCycle(a, e) /\ UNCHANGED dataVars
  \/ \E a \in Agents, e \in ExecIds : StoreWriteFails(a, e) /\ UNCHANGED dataVars
  \/ \E a \in Agents, e \in ExecIds : CatchWrite(a, e) /\ UNCHANGED dataVars
  \/ \E a \in Agents, e \in ExecIds : ErrorWriteFails(a, e) /\ UNCHANGED dataVars
  \/ \E a \in Agents, e \in ExecIds : ClosureReturns(a, e) /\ UNCHANGED dataVars

SpecFrame == InitFrame /\ [][NextFrame]_vars

\* ------------------------------------------------------------------------
\* The manager started and stopped: start(), stop(), status updates through
\* PATCH /api/agents/:id and the cycles, every store write succeeding
\* ------------------------------------------------------------------------
\* what start() and stop() leave alone
lifeRest == <<walletVars, alertVars, ingestVars, scoreVars, reportVars, bootVars,
              monitorVars>>

NextLife ==
  \/ start /\ stopped' = FALSE /\ UNCHANGED lifeRest
  \/ stop /\ stopped' = (running \/ stopped) /\ UNCHANGED lifeRest
  \/ \E a \in Agents, t \in TimerIds : TimerFires(a, t) /\ UNCHANGED dataVars
  \/ \E a \in Agents, e \in ExecIds : WriteProcessing(a, e) /\ UNCHANGED dataVars
  \/ \E a \in Agents, e \in ExecIds : LadderStep(a, e) /\ UNCHANGED dataVars
  \/ \E a \in Agents, e \in ExecIds : FinishCycle(a, e) /\ UNCHANGED dataVars
  \/ \E a \in Agents, e \in ExecIds : ClosureReturns(a, e) /\ UNCHANGED dataVars
  \/ \E a \in Agents, st \in {"active", "inactive"} :
       updateAgentStatus(a, st, -1) /\ UNCHANGED dataVars

SpecLife == Init /\ [][NextLife]_vars

\* ------------------------------------------------------------------------
\* The manager started over the records a previous run of the process left:
\* start() and the cycles, every store write succeeding
\* ------------------------------------------------------------------------
\* one agent left active and one left in any status
InitLive ==
  /\ running = FALSE
  /\ intervals = [a \in FrameAgents |-> NoTimer]
  /\ timers = [a \in FrameAgents |-> [t \in TimerIds |-> NotArmed]]
  /\ execs = [a \in FrameAgents |-> [e \in ExecIds |-> IdleExec]]
  /\ agentStore \in [FrameAgents ->
       [status : AgentStatus, progress : {0}, nextRun : {"past", "set"}]]
  /\ agentStore["risk_scoring"].status = "active"
  /\ paused = [a \in FrameAgents |-> FALSE]
  /\ WalletInit
  /\ AlertsAtRest /\ IngestAtRest /\ ScoreAtRest /\ ReportsAtRest /\ MonitorAtRest /\ LifeAtRest /\ BootAtRest

\* a step of a cycle of the agent
CycleStep(a) ==
  \E e \in ExecIds :
    \/ WriteProcessing(a, e)
    \/ LadderStep(a, e)
    \/ FinishCycle(a, e)
    \/ ClosureReturns(a, e)

NextLive ==
  \/ start /\ UNCHANGED dataVars
  \/ \E a \in Agents, t \in TimerIds : TimerFires(a, t) /\ UNCHANGED dataVars
  \/ \E a \in Agents : CycleStep(a) /\ UNCHANGED dataVars

\* The platform fires every pending timer, and every awaited delay and store
\* write of a cycle returns.
SpecLive ==
  /\ InitLive
  /\ [][NextLive]_vars
  /\ \A a \in FrameAgents :
       /\ WF_vars(\E t \in TimerIds : TimerFires(a, t) /\ UNCHANGED dataVars)
       /\ WF_vars(CycleStep(a) /\ UNCHANGED dataVars)

\* ------------------------------------------------------------------------
\* BlockchainService: startMonitoring, stopMonitoring and the monitoring
\* loops (part_001:146-191)
\* ------------------------------------------------------------------------
\* calls of simulateNetworkMonitoring and pending timers one network can have
MaxChains == 3

\* the calls in progress and the pending timers of a network
Chains(n) == chains[n].running + chains[n].pending

\* if (this.isMonitoring) return; this.isMonitoring = true;
\* this.networks.forEach(network => this.simulateNetworkMonitoring(network)):
\* each call passes its test of isMonitoring, generates at least one
\* transaction and is suspended at await this.processTransaction(txData)
startMonitoring ==
  /\ ~isMonitoring
  /\ \A n \in Networks : Chains(n) < MaxChains
  /\ isMonitoring' = TRUE
  /\ chains' = [n \in Networks |-> [chains[n] EXCEPT !.running = @ + 1]]

\* this.isMonitoring = false; no timer is cleared
stopMonitoring ==
  /\ isMonitoring
  /\ isMonitoring' = FALSE
  /\ UNCHANGED chains

\* a call of simulateNetworkMonitoring has processed its transactions and arms
\* the timer of the next cycle (5-10 s; 15 s in the catch block), whatever
\* isMonitoring is by then
ArmMonitorTimer(n) ==
  /\ chains[n].running > 0
  /\ chains' = [chains EXCEPT ![n] =
       [running |-> @.running - 1, pending |-> @.pending + 1]]
  /\ UNCHANGED isMonitoring

\* a pending timer fires: if (this.isMonitoring) this.simulateNetworkMonitoring(network)
MonitorTimerFires(n) ==
  /\ chains[n].pending > 0
  /\ chains' = [chains EXCEPT ![n] =
       [running |-> IF isMonitoring THEN @.running + 1 ELSE @.running,
        pending |-> @.pending - 1]]
  /\ UNCHANGED isMonitoring

\* what the monitoring leaves alone
monitorRest == <<schedVars, lifeVars, walletVars, alertVars, ingestVars, scoreVars,
                 reportVars, bootVars>>

NextMonitor ==
  \/ startMonitoring /\ UNCHANGED monitorRest
  \/ stopMonitoring /\ UNCHANGED monitorRest
  \/ \E n \in Networks : ArmMonitorTimer(n) /\ UNCHANGED monitorRest
  \/ \E n \in Networks : MonitorTimerFires(n) /\ UNCHANGED monitorRest

SpecMonitor == InitWallet /\ [][NextMonitor]_vars

\* ------------------------------------------------------------------------
\* Properties of the scheduler
\* ------------------------------------------------------------------------
\* a run that is inside executeAgent (agents.ts:87-146)
CycleInFlight(x) == x.pc \in {"start", "ladder", "finish"}

\* C1: for every agent at most one execution of its cycle (executeAgent) is
\* in flight at any time.
C1_OneCycleInFlight ==
  \A a \in Agents : Cardinality({e \in ExecIds : CycleInFlight(execs[a][e])}) <= 1

\* C2: in every reachable state each agent has at most one armed (pending)
\* timer.
C2_OneArmedTimer ==
  \A a \in Agents : Cardinality(Armed(a)) <= 1

\* C3: a cycle that has walked the progress ladder to its end has invoked the
\* handler of the agent's type (executeAgentLogic) exactly once.
C3_DispatchedOnce ==
  \A a \in Agents, e \in ExecIds :
    execs[a][e].pc \in {"finish", "next"} => execs[a][e].dispatched = 1

\* C4: whenever a cycle has failed while the manager is running, the scheduler
\* writes status=error and progress=0 for the agent and then re-arms the
\* agent's timer with a delay of exactly 2 x intervalSeconds.
C4_ErrorThenDoubleDelay ==
  [][\A a \in Agents, e \in ExecIds :
       /\ (running /\ execs[a][e].pc = "catch" /\ execs'[a][e].pc # "catch")
            => /\ execs'[a][e].pc = "retry"
               /\ agentStore'[a].status = "error"
               /\ agentStore'[a].progress = 0
       /\ (running /\ execs[a][e].pc = "retry" /\ execs'[a][e].pc # "retry")
            => \E t \in TimerIds :
                 /\ timers[a][t] = NotArmed
                 /\ timers'[a][t] = 2 * intervalSeconds(a) * 1000]_vars

\* C5: while the manager is running and the agent is not set inactive, a run
\* of the agent's cycle never ends (completed or failed at whatever step)
\* without a newly armed timer for the agent.
C5_EndArmsTimer ==
  [][\A a \in Agents, e \in ExecIds :
       (running /\ ~paused[a] /\ InFlight(execs[a][e]) /\ ~InFlight(execs'[a][e]))
         => \E t \in TimerIds : timers[a][t] = NotArmed /\ timers'[a][t] # NotArmed]_vars

\* the ladder as the specification states it
LadderValues == <<10, 25, 40, 55, 70, 85, 95, 100>>

IsLadderPrefix(w) ==
  /\ Len(w) <= Len(LadderValues)
  /\ \A k \in 1..Len(w) : w[k] = Write(NoField, LadderValues[k])

\* 0 with status=processing, then a prefix of the ladder, then at most one 0
\* with status active or error
CycleShape(w) ==
  \/ w = <<>>
  \/ /\ w[1] = Write("processing", 0)
     /\ \/ IsLadderPrefix(SubSeq(w, 2, Len(w)))
        \/ /\ Len(w) >= 2
           /\ w[Len(w)] \in {Write("active", 0), Write("error", 0)}
           /\ IsLadderPrefix(SubSeq(w, 2, Len(w) - 1))

C7_ProgressMatchesStatus ==
  \A a \in Agents :
    /\ agentStore[a].status = "processing"
         => agentStore[a].progress \in {0, 10, 25, 40, 55, 70, 85, 95, 100}
    /\ agentStore[a].status # "processing" => agentStore[a].progress = 0

\* C8: once an update has set the agent inactive, the scheduler writes nothing
\* to the agent's record until a later update sets the agent active.
C8_NoWriteWhilePaused ==
  [][\A a \in Agents, e \in ExecIds :
       paused[a] => Len(execs'[a][e].log) <= Len(execs[a][e].log)]_vars

\* C20: an updateAgentStatus that sets status active on an agent with no
\* armed timer (here: an agent an earlier update had set inactive) arms a timer
\* for the agent with delay 0, whatever nextRun the agent's record holds.
C20_ActivateArmsNow ==
  [][\A a \in Agents :
       (paused[a] /\ ~paused'[a] /\ Armed(a) = {})
         => \E t \in TimerIds : timers'[a][t] = 0]_vars

\* ------------------------------------------------------------------------
\* Properties of the wallet aggregation and of risk scoring
\* ------------------------------------------------------------------------
RECURSIVE SumSeq(_)
SumSeq(q) == IF q = <<>> THEN Whole(0) ELSE RatAdd(Head(q), SumSeq(Tail(q)))

RECURSIVE SumRisk(_)
SumRisk(S) ==
  IF S = {} THEN Whole(0)
  ELSE LET h == CHOOSE x \in S : TRUE
       IN RatAdd(txs[h].riskScore, SumRisk(S \ {h}))

\* the analyzed transactions sent from an address
AnalyzedFrom(w) == {h \in DOMAIN txs : txs[h].analyzedAt /\ txs[h].fromAddress = w}

\* C10: between runs of the risk_scoring handler, for every address that has a
\* profile, averageRiskScore equals the mean of the riskScore values stored on
\* the analyzed transactions sent from that address.
C10_AverageOfStoredScores ==
  scoring.pc = "idle" =>
    \A w \in DOMAIN profiles :
      /\ AnalyzedFrom(w) # {}
      /\ profiles[w].averageRiskScore
           = RatDivInt(SumRisk(AnalyzedFrom(w)), Cardinality(AnalyzedFrom(w)))

\* C16: with the risk_scoring handler run any number of times, one run after
\* another, a transaction that has analyzedAt set is never selected by a later
\* run and its riskScore and analyzedAt are never written again, also when its
\* score is 0.
C16_ScoredOnce ==
  [][/\ \A h \in DOMAIN txs :
          txs[h].analyzedAt => h \in DOMAIN txs' /\ txs'[h] = txs[h]
     /\ (scoring.pc = "idle" /\ scoring'.pc = "score")
          => \A k \in 1..Len(scoring'.queue) : ~txs[scoring'.queue[k].hash].analyzedAt]_vars

\* transaction 2 was scored 0 by an earlier run; the run in progress selected
\* transaction 1 only
C16_Witness ==
  /\ 2 \in DOMAIN txs
  /\ txs[2].analyzedAt
  /\ txs[2].riskScore = Whole(0)
  /\ scoring.pc = "score"
  /\ Len(scoring.queue) = 1
  /\ Head(scoring.queue).hash = 1

\* the tiers in increasing order, and the lower bound of each but the first
Tiers == <<"low", "medium", "high", "critical">>
TierBounds == <<4, 6, 8>>

\* tier(x): the tier whose lower bound is the greatest one not above x
Tier(x) ==
  Tiers[1 + Cardinality({k \in 1..Len(TierBounds) : RatLE(Whole(TierBounds[k]), x)})]

TierRank(level) == CHOOSE k \in 1..Len(Tiers) : Tiers[k] = level

\* C14: every WalletProfile written by updateWalletProfile, created or updated,
\* has riskLevel = tier(averageRiskScore); the averages 4, 6 and 8 give medium,
\* high and critical; and of two profiles the one with the greater average
\* never has the lower tier.
C14_RiskLevelIsTier ==
  /\ \A w \in DOMAIN profiles :
       /\ profiles[w].riskLevel = Tier(profiles[w].averageRiskScore)
       /\ profiles[w].averageRiskScore = Whole(4) => profiles[w].riskLevel = "medium"
       /\ profiles[w].averageRiskScore = Whole(6) => profiles[w].riskLevel = "high"
       /\ profiles[w].averageRiskScore = Whole(8) => profiles[w].riskLevel = "critical"
  /\ \A v, w \in DOMAIN profiles :
       RatLE(profiles[v].averageRiskScore, profiles[w].averageRiskScore)
         => TierRank(profiles[v].riskLevel) <= TierRank(profiles[w].riskLevel)

\* a profile created at the boundary 8 and a profile updated to the boundary 6
C14_Witness ==
  \E v, w \in DOMAIN profiles :
    /\ profiles[v].totalTransactions = 1
    /\ profiles[v].averageRiskScore = Whole(8)
    /\ profiles[v].riskLevel = "critical"
    /\ profiles[w].totalTransactions = 2
    /\ profiles[w].averageRiskScore = Whole(6)
    /\ profiles[w].riskLevel = "high"

\* the thresholds of the amount tiers and the hours of the night
AmountThresholds == {10000, 50000, 100000}
NightHours == {22, 23, 0, 1, 2, 3, 4}

\* one point for every threshold the amount lies strictly above
AmountBonus(amount) == Cardinality({t \in AmountThresholds : amount > t})
NightBonus(hour) == IF hour \in NightHours THEN 1 ELSE 0

Clamp(x, lo, hi) ==
  IF RatLE(x, Whole(lo)) THEN Whole(lo)
  ELSE IF RatLE(Whole(hi), x) THEN Whole(hi)
  ELSE x

\* C15: for every amount and hour of day calculateRiskScore returns
\* clamp(amountBonus + nightBonus + jitter, 0, 10) with jitter in [0,2),
\* amountBonus 3, 2, 1 or 0 by the strict thresholds 100000, 50000 and 10000,
\* and nightBonus 1 exactly for the hours 22,23,0,1,2,3,4; an amount of 150000
\* at 03:00 scores in [4,6].
C15_ScoreIsClampedSum ==
  lastScore # NoScore =>
    /\ RatLE(Whole(0), lastScore.jitter)
    /\ RatLE(lastScore.jitter, Whole(2)) /\ lastScore.jitter # Whole(2)
    /\ lastScore.score =
         Clamp(ToDouble(RatAdd(Whole(AmountBonus(lastScore.amount)
                                       + NightBonus(lastScore.hour)),
                               lastScore.jitter)), 0, 10)
    /\ (lastScore.amount = 150000 /\ lastScore.hour = 3)
         => RatLE(Whole(4), lastScore.score) /\ RatLE(lastScore.score, Whole(6))

\* an amount of 150000 at 03:00 with the jitter 1.875 scored 5.875
C15_Witness ==
  /\ lastScore.amount = 150000
  /\ lastScore.hour = 3
  /\ lastScore.score = Rat(47, 8)

\* ------------------------------------------------------------------------
\* Properties of the alert handlers
\* ------------------------------------------------------------------------
AlertsFor(hash) == {k \in 1..Len(alerts) : alerts[k].transactionHash = hash}

\* C11: under any interleaving of the behavior_analysis and alerting handlers
\* (each existence check and each insert a step of its own) the Alert
\* collection never holds two handler-created alerts with the same
\* transactionHash.
C11_OneAlertPerHash ==
  \A i, j \in 1..Len(alerts) :
    alerts[i].transactionHash = alerts[j].transactionHash => i = j

\* the handler has completed a run
HasRun(h) ==
  \E r \in 1..Len(runLog) :
    /\ runLog[r] = h
    /\ r < Len(runLog) \/ alertRuns[h].pc = "idle"

\* the handler's query returns the transaction
Selects(h, hash) ==
  IF h = "behavior_analysis"
  THEN \E k \in 1..Len(suspiciousTransactions) : suspiciousTransactions[k].hash = hash
  ELSE \E k \in 1..Len(highRiskTransactions) : highRiskTransactions[k].hash = hash

\* C12: with the handlers run one after another against an unchanged
\* transaction set, a run of a handler that follows an earlier run of the same
\* handler creates no alert; there is at most one alert per transactionHash;
\* and a transaction with riskScore 9 that a completed run's query returned has
\* exactly one alert, of severity critical.
C12_SecondRunCreatesNone ==
  /\ \A k \in 1..Len(alerts) :
       \A r \in 1..(alerts[k].run - 1) : runLog[r] # runLog[alerts[k].run]
  /\ \A hash \in DOMAIN txs : Cardinality(AlertsFor(hash)) <= 1
  /\ \A hash \in DOMAIN txs, h \in AlertHandlers :
       (txs[hash].riskScore = Whole(9) /\ HasRun(h) /\ Selects(h, hash))
         => /\ Cardinality(AlertsFor(hash)) = 1
            /\ \A k \in AlertsFor(hash) : alerts[k].severity = "critical"

\* the alerting handler has run twice in succession and a transaction with
\* riskScore 9 has its one alert, created by the first of the two runs
C12_Witness ==
  /\ Len(runLog) >= 2
  /\ runLog[1] = "alerting" /\ runLog[2] = "alerting"
  /\ HandlersIdle
  /\ \E hash \in DOMAIN txs :
       /\ txs[hash].riskScore = Whole(9)
       /\ \E k \in 1..Len(alerts) :
            /\ alerts[k].transactionHash = hash
            /\ alerts[k].severity = "critical"
            /\ alerts[k].run = 1

\* ------------------------------------------------------------------------
\* Properties of ingestion
\* ------------------------------------------------------------------------
RecordsWith(hash) == {k \in 1..Len(ingested) : ingested[k] = hash}

\* C13: however the existence checks and inserts of the monitoring loops
\* interleave, the Transaction collection never holds two records with one
\* hash, it holds exactly one once a submission of that hash has returned, and
\* no error of a duplicate submission reaches a monitoring loop.
C13_OneRecordPerHash ==
  /\ \A hash \in Hashes :
       /\ Cardinality(RecordsWith(hash)) <= 1
       /\ (\E n \in Networks : hash \in ingest[n].done)
            => Cardinality(RecordsWith(hash)) = 1
  /\ \A n \in Networks : ~ingest[n].error

\* two loops have submitted the same hash, both passed the existence check,
\* one insert was rejected, and one record persists
C13_Witness ==
  \E hash \in Hashes :
    /\ \A n \in Networks : hash \in ingest[n].done /\ ingest[n].pc = "idle"
    /\ \E n \in Networks : ingest[n].rejected
    /\ Cardinality(RecordsWith(hash)) = 1

\* ------------------------------------------------------------------------
\* Properties of the reporting handler
\* ------------------------------------------------------------------------
\* the writes of one report's generation as the specification states them:
\* generating with progress 0, progress 20, 40, 60, 80, 100, then completed
ReportLadder ==
  <<ReportWrite("generating", 0), ReportWrite(NoField, 20), ReportWrite(NoField, 40),
    ReportWrite(NoField, 60), ReportWrite(NoField, 80), ReportWrite(NoField, 100),
    ReportWrite("completed", 100)>>

IsReportPrefix(w) ==
  /\ Len(w) <= Len(ReportLadder)
  /\ \A k \in 1..Len(w) : w[k] = ReportLadder[k]

\* C17: a report processed by generateReport was created scheduled, and the
\* writes applied to it are, in order, status generating with progress 0, the
\* progress values 20, 40, 60, 80, 100 and status completed; a completed report
\* has received all of them; and once a report is completed the reporting
\* handler neither selects it nor changes it.
C17_ReportLifecycle ==
  /\ [](\A r \in 1..Len(reports) :
          /\ IsReportPrefix(reports[r].log)
          /\ reports[r].log # <<>> => reports[r].createdAs = "scheduled"
          /\ reports[r].status = "completed" => reports[r].log = ReportLadder)
  /\ [][/\ \A r \in 1..Len(reports) :
             reports[r].status = "completed"
               => /\ reports'[r].status = "completed"
                  /\ reports'[r].progress = reports[r].progress
                  /\ reports'[r].log = reports[r].log
        /\ (reporting.pc = "idle" /\ reporting'.pc = "start")
             => \A k \in 1..Len(reporting'.queue) :
                  reports[reporting'.queue[k]].status # "completed"]_vars

\* a completed report, and a later run of the handler working on another one
C17_Witness ==
  /\ reporting.pc = "progress"
  /\ \E r \in 1..Len(reports) :
       /\ r > Head(reporting.queue)
       /\ reports[r].status = "completed"
       /\ reports[r].log = ReportLadder

\* C18: the daily_summary Report the reporting handler creates is created with
\* status scheduled.
C18_SummaryCreatedScheduled ==
  \A r \in 1..Len(reports) :
    (reports[r].type = "daily_summary" /\ reports[r].generatedBy = "system")
      => reports[r].createdAs = "scheduled"

\* ------------------------------------------------------------------------
\* Properties of the bootstrap
\* ------------------------------------------------------------------------
AgentsOfType(type) == {k \in 1..Len(agentDocs) : agentDocs[k].type = type}

\* C19: after initializeDefaultAgents has run once or more, one run after
\* another, the store holds exactly one Agent per type, five in total; a step
\* of the bootstrap changes no existing record and creates a record only of a
\* type that has none.
C19_BootstrapIdempotent ==
  /\ []((boot.runs >= 1 /\ boot.pc = "idle")
          => /\ Len(agentDocs) = 5
             /\ \A k \in 1..Len(defaultAgents) :
                  Cardinality(AgentsOfType(defaultAgents[k])) = 1)
  /\ [][\/ agentDocs' = agentDocs
        \/ /\ Len(agentDocs') = Len(agentDocs) + 1
           /\ SubSeq(agentDocs', 1, Len(agentDocs)) = agentDocs
           /\ AgentsOfType(agentDocs'[Len(agentDocs')].type) = {}]_vars

\* the bootstrap has run twice over a store that held an inactive agent, which
\* is still there, inactive
C19_Witness ==
  /\ boot.runs = 2
  /\ boot.pc = "idle"
  /\ Len(agentDocs) = 5
  /\ \E k \in 1..Len(agentDocs) :
       agentDocs[k].status = "inactive" /\ agentDocs[k].nextRun = "past"

\* ------------------------------------------------------------------------
\* Properties of the alerting handler's inserts
\* ------------------------------------------------------------------------
\* the step is an insert of the alerting handler
AlertingInserts ==
  /\ alertRuns["alerting"].pc = "create"
  /\ alertRuns'["alerting"] # alertRuns["alerting"]
  /\ Len(alerts') = Len(alerts) + 1

\* C21: the alerting handler creates an alert for a transaction only if the
\* transaction has analyzedAt set, has riskScore >= threshold (8 when
\* severityThreshold is 'high', otherwise 6) and has no alert for its hash in
\* the collection; the alert has type risk_threshold and severity critical if
\* riskScore >= 9, high if riskScore >= 7, else medium.
C21_AlertingCreatesAsStated ==
  [][AlertingInserts =>
       LET a == alerts'[Len(alerts')]
           tx == txs[a.transactionHash]
       IN /\ tx.analyzedAt
          /\ RatLE(Whole(IF severityThreshold = "high" THEN 8 ELSE 6), tx.riskScore)
          /\ AlertsFor(a.transactionHash) = {}
          /\ a.type = "risk_threshold"
          /\ a.severity = (IF RatLE(Whole(9), tx.riskScore) THEN "critical"
                           ELSE IF RatLE(Whole(7), tx.riskScore) THEN "high"
                           ELSE "medium")]_vars

\* ------------------------------------------------------------------------
\* Properties of the daily summary
\* ------------------------------------------------------------------------
\* the daily summaries the handler created since the last local midnight
SummariesOfToday ==
  {r \in 1..Len(reports) :
     /\ reports[r].type = "daily_summary"
     /\ reports[r].generatedBy = "system"
     /\ reports[r].today}

\* C22: across reporting handler runs executed one after another within the
\* same calendar day at most one daily_summary Report is created: a run whose
\* existence check finds a daily_summary created since local midnight creates
\* none.
C22_OneDailySummaryPerDay ==
  /\ [](Cardinality(SummariesOfToday) <= 1)
  /\ [][(/\ reporting.pc = "summary"
         /\ \E r \in 1..Len(reports) :
              reports[r].type = "daily_summary" /\ reports[r].today)
          => /\ reporting'.pc # "create"
             /\ \A r \in (Len(reports) + 1)..Len(reports') :
                  reports'[r].type # "daily_summary"]_vars

\* a run of the handler at its existence check on a day whose daily summary an
\* earlier run created
C22_Witness ==
  /\ reporting.pc = "summary"
  /\ Cardinality(SummariesOfToday) = 1

\* ------------------------------------------------------------------------
\* Properties of the wallet profiles' counts
\* ------------------------------------------------------------------------
\* C23: after any number of risk_scoring handler runs executed one after
\* another, for every address that has a WalletProfile, totalTransactions
\* equals the number of analyzed transactions whose fromAddress is that
\* address.
C23_CountOfAnalyzed ==
  scoring.pc = "idle" =>
    \A w \in DOMAIN profiles :
      profiles[w].totalTransactions = Cardinality(AnalyzedFrom(w))

\* ------------------------------------------------------------------------
\* Properties of the reports' completion
\* ------------------------------------------------------------------------
\* C24: every Report record the system creates, the automatically created
\* daily summary and every report created through POST /api/reports,
\* eventually reaches status completed, provided the reporting handler keeps
\* being invoked and store operations succeed.
C24_EveryReportCompletes ==
  \A r \in 1..MaxReports :
    (r <= Len(reports))
      ~> (r <= Len(reports) /\ reports[r].status = "completed")

\* ------------------------------------------------------------------------
\* Properties of the agents' independence
\* ------------------------------------------------------------------------
\* C25: a cycle of one agent, whether it completes or fails, writes only that
\* agent's Agent record and only that agent's entry in the timer map: a step of
\* one agent's cycle leaves the status, progress and nextRun, the timer-map
\* entry, the armed timers and the runs in flight of every other agent
\* unchanged.
C25_CycleWritesOwnAgentOnly ==
  [][\A a \in Agents :
       (\E e \in ExecIds : InFlight(execs[a][e]) /\ execs'[a][e] # execs[a][e])
         => \A b \in Agents \ {a} :
              /\ agentStore'[b] = agentStore[b]
              /\ intervals'[b] = intervals[b]
              /\ timers'[b] = timers[b]
              /\ execs'[b] = execs[b]]_vars

\* ------------------------------------------------------------------------
\* Properties of start() and stop()
\* ------------------------------------------------------------------------
\* C26: after stop() has completed, no new agent cycle starts until start() is
\* called again, whatever updateAgentStatus calls arrive in between and
\* whatever cycles were in flight when stop() was called.
C26_NoCycleStartsAfterStop ==
  [][\A a \in Agents, e \in ExecIds :
       (stopped /\ stopped') => ~(~InFlight(execs[a][e]) /\ InFlight(execs'[a][e]))]_vars

\* C27: after start(), every agent whose stored status is not inactive
\* eventually runs a cycle, an agent whose record a previous run of the process
\* left in status processing or error included.
C27_EveryAgentRuns ==
  \A a \in FrameAgents :
    (running /\ agentStore[a].status # "inactive")
      ~> (\E e \in ExecIds : InFlight(execs[a][e]))

\* ------------------------------------------------------------------------
\* Properties of the alerting handler run without end
\* ------------------------------------------------------------------------
\* the transaction is analyzed and its riskScore reaches the configured threshold
Qualifies(hash) ==
  /\ txs[hash].analyzedAt
  /\ RatLE(Whole(IF severityThreshold = "high" THEN 8 ELSE 6), txs[hash].riskScore)

\* C28: if the alerting handler is invoked repeatedly and the transaction set
\* stops changing, every analyzed transaction with riskScore >= the configured
\* threshold eventually has an Alert, also when more than 10 transactions
\* qualify.
\* The transaction set does not change and alerts are never deleted, so this
\* is: eventually every qualifying transaction has one.
C28_EveryQualifyingAlerted ==
  <>(\A hash \in LiveHashes : Qualifies(hash) => AlertsFor(hash) # {})

\* ------------------------------------------------------------------------
\* Properties of the score's range
\* ------------------------------------------------------------------------
\* C29, as stated: for every transaction the score returned by
\* calculateRiskScore is at least 0 and strictly below 6.
C29_ScoreBelowSix ==
  lastScore # NoScore =>
    /\ RatLE(Whole(0), lastScore.score)
    /\ RatLE(lastScore.score, Whole(6)) /\ lastScore.score # Whole(6)

\* C29: for every transaction the score returned by calculateRiskScore is at
\* least 0 and at most 6, and it is 6 only as the rounded sum of 4 and a jitter
\* below 2; the upper clamp at 10 is never reached.
C29_ScoreAtMostSix ==
  lastScore # NoScore =>
    /\ RatLE(Whole(0), lastScore.score)
    /\ RatLE(lastScore.score, Whole(6))
    /\ lastScore.score = Whole(6)
         => /\ AmountBonus(lastScore.amount) + NightBonus(lastScore.hour) = 4
            /\ lastScore.jitter # Whole(2) /\ RatLE(lastScore.jitter, Whole(2))
            /\ RatAdd(Whole(4), lastScore.jitter) # Whole(6)
    /\ lastScore.score # Whole(10)

\* an amount above 100000 at night with the largest jitter scored exactly 6
C29_Witness ==
  /\ lastScore.amount = 100001
  /\ lastScore.hour = 23
  /\ lastScore.jitter = Rat(2^SignificandBits - 1, 2^(SignificandBits - 1))
  /\ lastScore.score = Whole(6)

====
